---- MODULE Spec2Model ----
(***************************************************************************)
(* Cache-aside lookup of logistics_SRE (src/main.go): the /query handler,  *)
(* get, getPackageDetailsInDB and setLogisticsInfoInCache, running as      *)
(* concurrent request goroutines against one Postgres database and the     *)
(* Redis hash "logistics_cache".                                           *)
(***************************************************************************)
EXTENDS Integers, Sequences, FiniteSets, TLC

\* ------------------------------------------------------------------ bounds
MaxTime == 120        \* the clock stops advancing here (seconds)
TickSeconds == 60     \* granularity of the clock (seconds)
MaxEvents == 2        \* rows per sno the TrackingDetails table can grow to

\* --------------------------------------------------------------- constants
Hour == 3600                      \* time.Hour, in seconds
ExpireDuration == (Hour * 2) \div 60   \* time.Hour*2/60, in seconds

Procs == {"p1", "p2", "p3"}       \* request goroutines, one per request
Keys == {"A", "B"}                \* tracking numbers (sno)
Empty == ""                       \* the default of c.DefaultQuery("sno", "")
Locs == {1, 2}                    \* location ids
NoExpiry == -1                    \* the hash has no TTL set

ErrNone == ""                     \* nil
ErrNoRows == "NotFound"           \* sql.ErrNoRows
ErrDB == "Transient"              \* any other database/sql error
ErrRedis == "CacheError"          \* a go-redis error other than redis.Nil
ErrJSON == "Serialization"        \* json.Unmarshal error

\* ------------------------------------------------------------------- state
VARIABLES
    packages,    \* Packages table: the set of sno having a base row
    details,     \* TrackingDetails table: sno -> rows in heap order
    recipients,  \* Recipients table: the set of sno having a recipient row
    locations,   \* Locations table: the set of location ids having a row
    cache,       \* fields of the Redis hash logistics_cache: sno -> bytes
    expireAt,    \* expiry instant of logistics_cache, or NoExpiry
    now,         \* wall clock, seconds
    pc,          \* position of each request goroutine
    sno,         \* its request parameter
    pd,          \* its PackageDetails under construction / returned
    res,         \* what get returned to the handler: [val, err]
    resp,        \* HTTP status written by the handler (0: none yet)
    hget,        \* outcome of its HGet: "None", "Miss", "Err", "Hit"
    dbErr,       \* the error getPackageDetailsInDB returned (dropped by get)
    fillErr,     \* the error setLogisticsInfoInCache returned (logged by get)
    nGet, nDb, nPut, nExp,   \* calls issued by the current request
    put,         \* its HSet: "none", "failed", "ok" (its bytes are in the
                 \* field), "overwritten" (by a later HSet), "expired"
    filled,      \* its Expire set the expiry of the hash holding its bytes
    doneAt,      \* when its request completed (-1: not yet)
    seen,        \* the requests for the same sno that had completed, less
                 \* than ExpireDuration ago, when its own began
    late,        \* "late": it is the first request for its sno to begin
                 \* ExpireDuration or more after the field was last filled;
                 \* "clean": and as long after the last successful Expire,
                 \* with no HSet since; "no" otherwise
    stable,      \* no table changed since its request began and since its
                 \* getPackageDetailsInDB began
    putIssued,   \* sno -> an HSet was issued for this field
    wroteAt,     \* sno -> when the last fill that wrote the field returned
    expSetAt     \* time of the last successful Expire, no HSet since

dbVars == <<packages, details, recipients, locations>>
cacheVars == <<cache, expireAt>>
procVars == <<pc, sno, pd, res, resp, hget, dbErr, fillErr, nGet, nDb, nPut,
              nExp, put, filled, doneAt, seen, late, stable>>
histVars == <<putIssued, wroteAt, expSetAt>>
vars == <<dbVars, cacheVars, now, procVars, histVars>>

\* ------------------------------------------------------------ data shapes
ZeroPD == [Sno |-> "", TrackingStatus |-> "", EstimatedDelivery |-> 0,
           Details |-> <<>>, Recipient |-> "", CurrentLocation |-> 0]

ZeroRes == [val |-> ZeroPD, err |-> ErrNone]

Nil == <<>>            \* redis.Nil: the field is absent
Corrupt == <<"{">>     \* bytes that are not the JSON of a PackageDetails

Dates == {1, 2}        \* values of TrackingDetails.date
Times == {1, 2}        \* values of TrackingDetails.time
Events == [date : Dates, time : Times, loc : Locs]

\* The base row of sno k in Packages.
PackageRow(k) ==
    [Sno |-> k, TrackingStatus |-> "in_transit", EstimatedDelivery |-> 7]

Row(n, e) == [id |-> n, date |-> e.date, time |-> e.time, loc |-> e.loc]

\* json.Marshal(packageDetails): the fields in declaration order.
Marshal(d) ==
    <<d.Sno, d.TrackingStatus, d.EstimatedDelivery, d.Details, d.Recipient,
      d.CurrentLocation>>

\* A decoder that loses the current location.
Unmarshal_DropsLocation(b) ==
    [Sno |-> b[1], TrackingStatus |-> b[2], EstimatedDelivery |-> b[3],
     Details |-> b[4], Recipient |-> b[5], CurrentLocation |-> 0]

\* json.Unmarshal succeeds on the bytes of an encoded PackageDetails only.
Decodable(b) == Len(b) = 6

Unmarshal(b) ==
    [Sno |-> b[1], TrackingStatus |-> b[2], EstimatedDelivery |-> b[3],
     Details |-> b[4], Recipient |-> b[5], CurrentLocation |-> b[6]]

\* An ordering that compares the time of day before the date.
Later_TimeFirst(e1, e2) ==
    \/ e1.time > e2.time
    \/ e1.time = e2.time /\ e1.date > e2.date

\* ORDER BY date DESC, time DESC: e1 sorts before e2.
Later(e1, e2) ==
    \/ e1.date > e2.date
    \/ e1.date = e2.date /\ e1.time > e2.time

\* The rows an ascending order would put first: ORDER BY date, time LIMIT 1.
LatestRows_Oldest(rows) ==
    {i \in 1..Len(rows) : \A j \in 1..Len(rows) : ~Later(rows[i], rows[j])}

\* The rows LIMIT 1 may return: those no other row sorts before.
LatestRows(rows) ==
    {i \in 1..Len(rows) : \A j \in 1..Len(rows) : ~Later(rows[j], rows[i])}

HashExists == \E k \in Keys : cache[k] # Nil

\* ------------------------------------------------------------------- Init
\* Every goroutine is idle, nothing was looked up yet, the clock is at 0.
InitProcs ==
    /\ pc = [p \in Procs |-> "idle"]
    /\ sno = [p \in Procs |-> Empty]
    /\ pd = [p \in Procs |-> ZeroPD]
    /\ res = [p \in Procs |-> ZeroRes]
    /\ resp = [p \in Procs |-> 0]
    /\ hget = [p \in Procs |-> "None"]
    /\ dbErr = [p \in Procs |-> ErrNone]
    /\ fillErr = [p \in Procs |-> ErrNone]
    /\ nGet = [p \in Procs |-> 0]
    /\ nDb = [p \in Procs |-> 0]
    /\ nPut = [p \in Procs |-> 0]
    /\ nExp = [p \in Procs |-> 0]
    /\ put = [p \in Procs |-> "none"]
    /\ filled = [p \in Procs |-> FALSE]
    /\ seen = [p \in Procs |-> {}]
    /\ late = [p \in Procs |-> "no"]
    /\ doneAt = [p \in Procs |-> -1]
    /\ stable = [p \in Procs |-> FALSE]
    /\ putIssued = [k \in Keys |-> FALSE]
    /\ wroteAt = [k \in Keys |-> -1]
    /\ expSetAt = -1
    /\ now = 0
    /\ expireAt = NoExpiry

\* Orchestrator runs: sno "B" may lack its base row, every other row exists;
\* the hash may hold a field under "A" that someone else wrote (no TTL).
Init ==
    /\ InitProcs
    /\ packages \in {{"A"}, Keys}
    /\ recipients = Keys
    /\ locations = Locs
    /\ details = [k \in Keys |-> <<Row(1, [date |-> 1, time |-> 1, loc |-> 1])>>]
    /\ cache \in [Keys -> {Nil, Corrupt}]
    /\ cache["B"] = Nil

\* Runs over the lifetime of the hash: every row exists, the hash is empty.
InitTTL ==
    /\ InitProcs
    /\ packages = Keys
    /\ recipients = Keys
    /\ locations = Locs
    /\ details = [k \in Keys |-> <<Row(1, [date |-> 1, time |-> 1, loc |-> 1])>>]
    /\ cache = [k \in Keys |-> Nil]

\* Assembler runs: any of the four tables may lack the rows of a sno.
InitDB ==
    /\ InitProcs
    /\ packages \in {{}, Keys}
    /\ recipients \in {{}, Keys}
    /\ locations \in {{1}, Locs}
    /\ details = [k \in Keys |-> <<>>]
    /\ cache = [k \in Keys |-> Nil]

\* ---------------------------------------------------------------- actions
\* get returns (val, err) to the handler, which writes 200 or 404.
Return(p, val, err) ==
    /\ res' = [res EXCEPT ![p] = [val |-> val, err |-> err]]
    /\ resp' = [resp EXCEPT ![p] = IF err = ErrNone THEN 200 ELSE 404]
    /\ pc' = [pc EXCEPT ![p] = "done"]
    /\ doneAt' = [doneAt EXCEPT ![p] = now]

\* sno == "": 404 at once, get is not called.
HandlerEmpty(p) ==
    /\ resp' = [resp EXCEPT ![p] = 404]
    /\ pc' = [pc EXCEPT ![p] = "done"]
    /\ doneAt' = [doneAt EXCEPT ![p] = now]
    /\ UNCHANGED <<res, hget, nGet, wroteAt, seen, late>>

\* What the run remembers of a lookup of s as it begins.
Begin(p, s) ==
    /\ nGet' = [nGet EXCEPT ![p] = 1]
    /\ seen' = [seen EXCEPT ![p] =
                  {q \in Procs : /\ pc[q] = "done"
                                 /\ sno[q] = s
                                 /\ now < doneAt[q] + ExpireDuration}]
    /\ late' = [late EXCEPT ![p] =
                  IF wroteAt[s] # -1 /\ now >= wroteAt[s] + ExpireDuration
                    THEN IF expSetAt # -1 /\ now >= expSetAt + ExpireDuration
                           THEN "clean" ELSE "late"
                    ELSE "no"]
    /\ wroteAt' = [wroteAt EXCEPT ![s] =
                     IF @ # -1 /\ now >= @ + ExpireDuration THEN -1 ELSE @]

\* get, err == redis.Nil: go on to getPackageDetailsInDB.
GetMiss(p) ==
    /\ hget' = [hget EXCEPT ![p] = "Miss"]
    /\ pc' = [pc EXCEPT ![p] = "base"]
    /\ UNCHANGED <<res, resp, doneAt>>

\* A get that degrades to the database when the cache read fails.
GetCacheError_FailOpen(p) ==
    /\ hget' = [hget EXCEPT ![p] = "Err"]
    /\ pc' = [pc EXCEPT ![p] = "base"]
    /\ UNCHANGED <<res, resp, doneAt>>

\* get, err != nil: return PackageDetails{}, err.
GetCacheError(p) ==
    /\ hget' = [hget EXCEPT ![p] = "Err"]
    /\ Return(p, ZeroPD, ErrRedis)

\* A get that falls back to the database when the cached bytes do not parse.
GetHit_Fallback(p, b) ==
    /\ hget' = [hget EXCEPT ![p] = "Hit"]
    /\ IF Decodable(b)
         THEN Return(p, Unmarshal(b), ErrNone)
         ELSE /\ pc' = [pc EXCEPT ![p] = "base"]
              /\ UNCHANGED <<res, resp, doneAt>>

\* A get that renews the expiry of the hash on every hit (sliding expiry).
GetHit_Sliding(p, b) ==
    /\ hget' = [hget EXCEPT ![p] = "Hit"]
    /\ pc' = [pc EXCEPT ![p] = "expire"]
    /\ UNCHANGED <<res, resp, doneAt>>

\* A get that takes every hit for stale and assembles the record anew.
GetHit_Refreshes(p, b) ==
    /\ hget' = [hget EXCEPT ![p] = "Hit"]
    /\ pc' = [pc EXCEPT ![p] = "base"]
    /\ UNCHANGED <<res, resp, doneAt>>

\* get, cache hit: json.Unmarshal the bytes b and return the record, or
\* PackageDetails{} and the error.
GetHit(p, b) ==
    /\ hget' = [hget EXCEPT ![p] = "Hit"]
    /\ IF Decodable(b)
         THEN Return(p, Unmarshal(b), ErrNone)
         ELSE Return(p, ZeroPD, ErrJSON)

\* client.HGet(ctx, "logistics_cache", sno) and the three branches of get
\* (f: the cache read fails).
HGet(p, s, f) ==
    /\ Begin(p, s)
    /\ IF f THEN GetCacheError(p)
       ELSE IF cache[s] = Nil THEN GetMiss(p)
       ELSE GetHit(p, cache[s])

\* A handler that passes an empty sno on to get, which finds no such field.
Handler_NoEmptyCheck(p, s, f) ==
    /\ pc[p] = "idle"
    /\ sno' = [sno EXCEPT ![p] = s]
    /\ IF s = Empty
         THEN /\ ~f
              /\ nGet' = [nGet EXCEPT ![p] = 1]
              /\ GetMiss(p)
              /\ UNCHANGED <<wroteAt, seen, late>>
         ELSE HGet(p, s, f)
    /\ stable' = [stable EXCEPT ![p] = TRUE]
    /\ UNCHANGED <<dbVars, cacheVars, now, putIssued, expSetAt, pd, dbErr,
                   fillErr, nDb, nPut, nExp, put, filled>>

\* queryLogisticsHandler up to and including the cache read of get.
Handler(p, s, f) ==
    /\ pc[p] = "idle"
    /\ sno' = [sno EXCEPT ![p] = s]
    /\ IF s = Empty THEN ~f /\ HandlerEmpty(p) ELSE HGet(p, s, f)
    /\ stable' = [stable EXCEPT ![p] = TRUE]
    /\ UNCHANGED <<dbVars, cacheVars, now, putIssued, expSetAt, pd, dbErr,
                   fillErr, nDb, nPut, nExp, put, filled>>

\* getPackageDetailsInDB returns (pd, err); get drops err and goes on to
\* setLogisticsInfoInCache.
AsmReturn(p, d, err) ==
    /\ pd' = [pd EXCEPT ![p] = d]
    /\ dbErr' = [dbErr EXCEPT ![p] = err]
    /\ pc' = [pc EXCEPT ![p] = "hset"]

\* SELECT sno, tracking_status, estimated_delivery FROM Packages WHERE sno = $1
QueryBase(p, f) ==
    /\ pc[p] = "base"
    /\ nDb' = [nDb EXCEPT ![p] = @ + 1]
    /\ stable' = [stable EXCEPT ![p] = TRUE]
    /\ \/ f /\ AsmReturn(p, pd[p], ErrDB)
       \/ /\ ~f
          /\ sno[p] \notin packages
          /\ AsmReturn(p, pd[p], ErrNoRows)
       \/ /\ ~f
          /\ sno[p] \in packages
          /\ pd' = [pd EXCEPT ![p] =
                      [@ EXCEPT !.Sno = PackageRow(sno[p]).Sno,
                                !.TrackingStatus =
                                    PackageRow(sno[p]).TrackingStatus,
                                !.EstimatedDelivery =
                                    PackageRow(sno[p]).EstimatedDelivery]]
          /\ pc' = [pc EXCEPT ![p] = "details"]
          /\ UNCHANGED dbErr
    /\ UNCHANGED <<dbVars, cacheVars, now, histVars, sno, res, resp, hget,
                   fillErr, nGet, nPut, nExp, put, filled, doneAt, seen, late>>

\* SELECT ... FROM TrackingDetails WHERE sno = $1, appended row by row.
\* rows.Err() is never checked: an iteration that breaks off after n rows
\* leaves the first n rows in pd.Details and the call goes on.
QueryDetails(p, f, n) ==
    /\ pc[p] = "details"
    /\ nDb' = [nDb EXCEPT ![p] = @ + 1]
    /\ n \in 0..Len(details[sno[p]])
    /\ \/ f /\ AsmReturn(p, pd[p], ErrDB)
       \/ /\ ~f
          /\ pd' = [pd EXCEPT ![p] =
                      [@ EXCEPT !.Details = SubSeq(details[sno[p]], 1, n)]]
          /\ pc' = [pc EXCEPT ![p] = "recipient"]
          /\ UNCHANGED dbErr
    /\ UNCHANGED <<dbVars, cacheVars, now, histVars, sno, res, resp, hget,
                   fillErr, nGet, nPut, nExp, put, filled, doneAt, seen, late,
                   stable>>

\* A recipient read that leaves the recipient empty when no row matches.
QueryRecipient_IgnoresAbsence(p, f) ==
    /\ pc[p] = "recipient"
    /\ nDb' = [nDb EXCEPT ![p] = @ + 1]
    /\ \/ f /\ AsmReturn(p, pd[p], ErrDB)
       \/ /\ ~f
          /\ pd' = [pd EXCEPT ![p] =
                      [@ EXCEPT !.Recipient =
                                  IF sno[p] \in recipients THEN sno[p] ELSE ""]]
          /\ pc' = [pc EXCEPT ![p] = "location"]
          /\ UNCHANGED dbErr
    /\ UNCHANGED <<dbVars, cacheVars, now, histVars, sno, res, resp, hget,
                   fillErr, nGet, nPut, nExp, put, filled, doneAt, seen, late,
                   stable>>

\* SELECT id, name, address, phone FROM Recipients WHERE sno = $1
QueryRecipient(p, f) ==
    /\ pc[p] = "recipient"
    /\ nDb' = [nDb EXCEPT ![p] = @ + 1]
    /\ \/ f /\ AsmReturn(p, pd[p], ErrDB)
       \/ /\ ~f
          /\ sno[p] \notin recipients
          /\ AsmReturn(p, pd[p], ErrNoRows)
       \/ /\ ~f
          /\ sno[p] \in recipients
          /\ pd' = [pd EXCEPT ![p] = [@ EXCEPT !.Recipient = sno[p]]]
          /\ pc' = [pc EXCEPT ![p] = "location"]
          /\ UNCHANGED dbErr
    /\ UNCHANGED <<dbVars, cacheVars, now, histVars, sno, res, resp, hget,
                   fillErr, nGet, nPut, nExp, put, filled, doneAt, seen, late,
                   stable>>

\* SELECT ... FROM Locations WHERE location_id = (SELECT location_id FROM
\* TrackingDetails WHERE sno = $1 ORDER BY date DESC, time DESC LIMIT 1)
QueryLocation(p, f) ==
    /\ pc[p] = "location"
    /\ nDb' = [nDb EXCEPT ![p] = @ + 1]
    /\ \/ f /\ AsmReturn(p, pd[p], ErrDB)
       \/ /\ ~f
          /\ details[sno[p]] = <<>>
          /\ AsmReturn(p, pd[p], ErrNoRows)
       \/ \E i \in LatestRows(details[sno[p]]) :
            LET l == details[sno[p]][i].loc IN
            ~f /\
            IF l \in locations
              THEN AsmReturn(p, [pd[p] EXCEPT !.CurrentLocation = l], ErrNone)
              ELSE AsmReturn(p, pd[p], ErrNoRows)
    /\ UNCHANGED <<dbVars, cacheVars, now, histVars, sno, res, resp, hget,
                   fillErr, nGet, nPut, nExp, put, filled, doneAt, seen, late,
                   stable>>

\* A put that writes the whole key anew, dropping the fields of other sno.
HSet_ReplacesHash(p, f) ==
    /\ pc[p] = "hset"
    /\ nPut' = [nPut EXCEPT ![p] = @ + 1]
    /\ putIssued' = [putIssued EXCEPT ![sno[p]] = TRUE]
    /\ pc' = [pc EXCEPT ![p] = "expire"]
    /\ \/ /\ f
          /\ put' = [put EXCEPT ![p] = "failed"]
          /\ UNCHANGED <<cache, expSetAt>>
       \/ /\ ~f
          /\ cache' = [k \in Keys |->
                         IF k = sno[p] THEN Marshal(pd[p]) ELSE Nil]
          /\ put' = [q \in Procs |->
                       IF q = p THEN "ok"
                       ELSE IF put[q] = "ok" /\ sno[q] = sno[p]
                              THEN "overwritten" ELSE put[q]]
          /\ expSetAt' = -1
    /\ UNCHANGED <<dbVars, expireAt, now, sno, pd, res, resp, hget, dbErr,
                   fillErr, nGet, nDb, nExp, filled, doneAt, seen, late, stable,
                   wroteAt>>

\* A fill that returns the error of a failed HSet at once, without Expire.
HSet_StopsOnFailure(p, f) ==
    /\ pc[p] = "hset"
    /\ nPut' = [nPut EXCEPT ![p] = @ + 1]
    /\ putIssued' = [putIssued EXCEPT ![sno[p]] = TRUE]
    /\ \/ /\ f
          /\ put' = [put EXCEPT ![p] = "failed"]
          /\ fillErr' = [fillErr EXCEPT ![p] = ErrRedis]
          /\ Return(p, pd[p], ErrNone)
          /\ UNCHANGED <<cache, expSetAt>>
       \/ /\ ~f
          /\ cache' = [cache EXCEPT ![sno[p]] = Marshal(pd[p])]
          /\ put' = [q \in Procs |->
                       IF q = p THEN "ok"
                       ELSE IF put[q] = "ok" /\ sno[q] = sno[p]
                              THEN "overwritten" ELSE put[q]]
          /\ expSetAt' = -1
          /\ pc' = [pc EXCEPT ![p] = "expire"]
          /\ UNCHANGED <<fillErr, res, resp, doneAt>>
    /\ UNCHANGED <<dbVars, expireAt, now, sno, pd, hget, dbErr, nGet, nDb,
                   nExp, filled, seen, late, stable, wroteAt>>

\* A put that leaves a field that is already present as it is (HSETNX).
HSet_KeepsExisting(p, f) ==
    /\ pc[p] = "hset"
    /\ nPut' = [nPut EXCEPT ![p] = @ + 1]
    /\ putIssued' = [putIssued EXCEPT ![sno[p]] = TRUE]
    /\ pc' = [pc EXCEPT ![p] = "expire"]
    /\ \/ /\ f
          /\ put' = [put EXCEPT ![p] = "failed"]
          /\ UNCHANGED <<cache, expSetAt>>
       \/ /\ ~f
          /\ cache' = [cache EXCEPT ![sno[p]] =
                         IF @ = Nil THEN Marshal(pd[p]) ELSE @]
          /\ put' = [q \in Procs |->
                       IF q = p THEN "ok"
                       ELSE IF put[q] = "ok" /\ sno[q] = sno[p]
                              THEN "overwritten" ELSE put[q]]
          /\ expSetAt' = -1
    /\ UNCHANGED <<dbVars, expireAt, now, sno, pd, res, resp, hget, dbErr,
                   fillErr, nGet, nDb, nExp, filled, doneAt, seen, late, stable,
                   wroteAt>>

\* setLogisticsInfoInCache, first half: json.Marshal, then
\* client.HSet(ctx, "logistics_cache", sno, data), its error discarded.
HSet(p, f) ==
    /\ pc[p] = "hset"
    /\ nPut' = [nPut EXCEPT ![p] = @ + 1]
    /\ putIssued' = [putIssued EXCEPT ![sno[p]] = TRUE]
    /\ pc' = [pc EXCEPT ![p] = "expire"]
    /\ \/ /\ f
          /\ put' = [put EXCEPT ![p] = "failed"]
          /\ UNCHANGED <<cache, expSetAt>>
       \/ /\ ~f
          /\ cache' = [cache EXCEPT ![sno[p]] = Marshal(pd[p])]
          /\ put' = [q \in Procs |->
                       IF q = p THEN "ok"
                       ELSE IF put[q] = "ok" /\ sno[q] = sno[p]
                              THEN "overwritten" ELSE put[q]]
          /\ expSetAt' = -1
    /\ UNCHANGED <<dbVars, expireAt, now, sno, pd, res, resp, hget, dbErr,
                   fillErr, nGet, nDb, nExp, filled, doneAt, seen, late, stable,
                   wroteAt>>

\* An expiry whose division is carried out first: time.Hour*(2/60).
ExpiryInstant_DivideFirst(t) == t + Hour * (2 \div 60)

\* An expiry of two hours, time.Hour*2, after instant t.
ExpiryInstant_TwoHours(t) == t + Hour * 2

\* The instant an Expire issued at t sets: t + time.Hour*2/60.
ExpiryInstant(t) == t + ExpireDuration

\* A get that returns the error of setLogisticsInfoInCache to its caller.
GetAfterFill_Propagates(p) ==
    IF fillErr'[p] # ErrNone
      THEN Return(p, ZeroPD, fillErr'[p])
      ELSE Return(p, pd[p], ErrNone)

\* get after setLogisticsInfoInCache: the error is printed, and the record
\* is returned with a nil error.
GetAfterFill(p) == Return(p, pd[p], ErrNone)

\* An Expire that is issued a second time when the first attempt fails.
Expire_RetriesOnce(p, f) ==
    /\ pc[p] = "expire"
    /\ nExp' = [nExp EXCEPT ![p] = @ + 1]
    /\ IF f /\ nExp[p] = 0
         THEN /\ fillErr' = [fillErr EXCEPT ![p] = ErrRedis]
              /\ UNCHANGED <<expireAt, expSetAt, filled, wroteAt, pc, res,
                             resp, doneAt>>
         ELSE /\ \/ /\ f
                    /\ fillErr' = [fillErr EXCEPT ![p] = ErrRedis]
                    /\ UNCHANGED <<expireAt, expSetAt, filled>>
                 \/ /\ ~f
                    /\ fillErr' = [fillErr EXCEPT ![p] = ErrNone]
                    /\ filled' = [filled EXCEPT ![p] = put[p] = "ok"]
                    /\ IF HashExists
                         THEN /\ expireAt' = ExpiryInstant(now)
                              /\ expSetAt' = now
                         ELSE UNCHANGED <<expireAt, expSetAt>>
              /\ wroteAt' = [wroteAt EXCEPT ![sno[p]] =
                               IF put[p] = "ok" THEN now ELSE @]
              /\ GetAfterFill(p)
    /\ UNCHANGED <<dbVars, cache, now, sno, pd, hget, dbErr, nGet, nDb, nPut,
                   put, seen, late, stable, putIssued>>

\* An Expire that sets an expiry only on a hash that has none (EXPIRE NX).
Expire_KeepsExisting(p, f) ==
    /\ pc[p] = "expire"
    /\ nExp' = [nExp EXCEPT ![p] = @ + 1]
    /\ \/ /\ f
          /\ fillErr' = [fillErr EXCEPT ![p] = ErrRedis]
          /\ UNCHANGED <<expireAt, expSetAt, filled>>
       \/ /\ ~f
          /\ fillErr' = [fillErr EXCEPT ![p] = ErrNone]
          /\ filled' = [filled EXCEPT ![p] = put[p] = "ok"]
          /\ IF HashExists /\ expireAt = NoExpiry
               THEN /\ expireAt' = ExpiryInstant(now)
                    /\ expSetAt' = now
               ELSE UNCHANGED <<expireAt, expSetAt>>
    /\ wroteAt' = [wroteAt EXCEPT ![sno[p]] = IF put[p] = "ok" THEN now ELSE @]
    /\ GetAfterFill(p)
    /\ UNCHANGED <<dbVars, cache, now, sno, pd, hget, dbErr, nGet, nDb, nPut,
                   put, seen, late, stable, putIssued>>

\* setLogisticsInfoInCache, second half: client.Expire(ctx, "logistics_cache",
\* time.Hour*2/60); its error is what get logs. get then returns (pd, nil).
\* EXPIRE on a key that does not exist changes nothing and is no error.
Expire(p, f) ==
    /\ pc[p] = "expire"
    /\ nExp' = [nExp EXCEPT ![p] = @ + 1]
    /\ \/ /\ f
          /\ fillErr' = [fillErr EXCEPT ![p] = ErrRedis]
          /\ UNCHANGED <<expireAt, expSetAt, filled>>
       \/ /\ ~f
          /\ fillErr' = [fillErr EXCEPT ![p] = ErrNone]
          /\ filled' = [filled EXCEPT ![p] = put[p] = "ok"]
          /\ IF HashExists
               THEN /\ expireAt' = ExpiryInstant(now)
                    /\ expSetAt' = now
               ELSE UNCHANGED <<expireAt, expSetAt>>
    /\ wroteAt' = [wroteAt EXCEPT ![sno[p]] = IF put[p] = "ok" THEN now ELSE @]
    /\ GetAfterFill(p)
    /\ UNCHANGED <<dbVars, cache, now, sno, pd, hget, dbErr, nGet, nDb, nPut,
                   put, seen, late, stable, putIssued>>

\* Another service inserts a tracking event for sno k.
AddEvent(k, e) ==
    /\ Len(details[k]) < MaxEvents
    /\ details' = [details EXCEPT ![k] = Append(@, Row(Len(@) + 1, e))]
    /\ stable' = [p \in Procs |-> FALSE]
    /\ UNCHANGED <<packages, recipients, locations, cacheVars, now, histVars,
                   pc, sno, pd, res, resp, hget, dbErr, fillErr, nGet, nDb,
                   nPut, nExp, put, filled, doneAt, seen, late>>

\* Time passes; Redis drops the whole hash once its expiry instant is reached.
Tick ==
    /\ now + TickSeconds <= MaxTime
    /\ now' = now + TickSeconds
    /\ IF expireAt # NoExpiry /\ now' >= expireAt
         THEN /\ cache' = [k \in Keys |-> Nil]
              /\ expireAt' = NoExpiry
              /\ put' = [p \in Procs |->
                           IF put[p] = "ok" THEN "expired" ELSE put[p]]
         ELSE UNCHANGED <<cache, expireAt, put>>
    /\ UNCHANGED <<dbVars, histVars, pc, sno, pd, res, resp, hget, dbErr,
                   fillErr, nGet, nDb, nPut, nExp, filled, doneAt, seen, late,
                   stable>>

\* One step of goroutine p. DbF and CacheF are the outcomes the run allows
\* the database and the cache calls (TRUE: the call fails); Cut allows the
\* iteration over the TrackingDetails rows to break off early.
Step(p, DbF, CacheF, Cut) ==
    \/ \E s \in Keys \cup {Empty}, f \in CacheF : Handler(p, s, f)
    \/ \E f \in DbF : QueryBase(p, f)
    \/ \E f \in DbF, n \in 0..MaxEvents :
         /\ QueryDetails(p, f, n)
         /\ Cut \/ n = Len(details[sno[p]])
    \/ \E f \in DbF : QueryRecipient(p, f)
    \/ \E f \in DbF : QueryLocation(p, f)
    \/ \E f \in CacheF : HSet(p, f)
    \/ \E f \in CacheF : Expire(p, f)

LateEvent == [date |-> 2, time |-> 1, loc |-> 2]

\* Two requests, failing database and cache calls, a growing
\* TrackingDetails table; all within one instant of the clock.
Next ==
    \/ \E p \in {"p1", "p2"} : Step(p, BOOLEAN, BOOLEAN, FALSE)
    \/ AddEvent("A", LateEvent)

Spec == Init /\ [][Next]_vars

\* Three requests over the lifetime of the hash: the clock advances, cache
\* calls may fail, database calls succeed.
NextTTL ==
    \/ \E p \in Procs : Step(p, {FALSE}, BOOLEAN, FALSE)
    \/ Tick

SpecTTL == InitTTL /\ [][NextTTL]_vars

\* One request against a relational store that grows by any event.
NextDB ==
    \/ Step("p1", BOOLEAN, {FALSE}, TRUE)
    \/ \E e \in Events : AddEvent("A", e)

SpecDB == InitDB /\ [][NextDB]_vars

\* ------------------------------------------------------------------ claims
\* A request of goroutine p has gone past getPackageDetailsInDB.
Fetched(p) == hget[p] = "Miss" /\ pc[p] \in {"hset", "expire", "done"}

\* C1: a lookup whose cache read is a Miss and whose getPackageDetailsInDB
\* ends in NotFound or a transient error returns that same error kind,
\* never a success.
C1_AssemblerErrorPropagated ==
    \A p \in Procs :
        (pc[p] = "done" /\ hget[p] = "Miss" /\ dbErr[p] \in {ErrNoRows, ErrDB})
            => res[p].err = dbErr[p]

\* C2: for a tracking number with no row in Packages, getPackageDetailsInDB
\* returns NotFound (unless the read itself fails) and no HSet is ever
\* issued for it: logistics_cache holds no field under it.
C2_AbsentNeverCached ==
    \A k \in Keys \ packages :
        /\ \A p \in Procs :
             (Fetched(p) /\ sno[p] = k /\ dbErr[p] # ErrDB)
                 => dbErr[p] = ErrNoRows
        /\ ~putIssued[k]
        /\ cache[k] = Nil

\* C5: when the cache read of a lookup returns an error other than Miss, the
\* lookup returns that error at once: no relational read, no HSet and no
\* Expire are issued.
C5_FailFastOnCacheError ==
    \A p \in Procs :
        hget[p] = "Err" =>
            /\ pc[p] = "done"
            /\ res[p] = [val |-> ZeroPD, err |-> ErrRedis]
            /\ resp[p] = 404
            /\ nDb[p] = 0 /\ nPut[p] = 0 /\ nExp[p] = 0

C5_Witness ==
    \E p \in Procs : hget[p] = "Err" /\ pc[p] = "done" /\ sno[p] \in Keys

SerializationFailed(p) == hget[p] = "Hit" /\ res[p].err = ErrJSON

\* C7: a lookup that reads a field whose bytes do not deserialize returns a
\* Serialization error and reads nothing from the database; no lookup
\* repairs or removes the field, so it is still there after the error and
\* every lookup of that sno whose cache read succeeds fails alike.
C7_CorruptHitSurfaced ==
    \A p \in Procs :
        (pc[p] # "idle" /\ sno[p] \in Keys /\ hget[p] # "Err") =>
            /\ cache[sno[p]] = Corrupt =>
                 /\ SerializationFailed(p)
                 /\ pc[p] = "done"
                 /\ res[p].val = ZeroPD
                 /\ resp[p] = 404
                 /\ nDb[p] = 0 /\ nPut[p] = 0 /\ nExp[p] = 0
            /\ SerializationFailed(p) => cache[sno[p]] = Corrupt

C7_Witness ==
    \E p, q \in Procs :
        p # q /\ SerializationFailed(p) /\ SerializationFailed(q)

\* C10: a request with an empty sno is answered 404 in one step: no HGet, no
\* HSet, no Expire and no relational read is issued for it, and the cache
\* and the tables are left as they were.
C10_EmptyShortCircuits ==
    [][\A p \in Procs :
          (pc[p] = "idle" /\ pc'[p] # "idle" /\ sno'[p] = Empty) =>
              /\ pc'[p] = "done"
              /\ resp'[p] = 404
              /\ hget'[p] = "None"
              /\ nGet'[p] = 0 /\ nDb'[p] = 0 /\ nPut'[p] = 0 /\ nExp'[p] = 0
              /\ UNCHANGED <<dbVars, cacheVars, putIssued>>]_vars

C10_Witness ==
    \E p \in Procs : pc[p] = "done" /\ sno[p] = Empty /\ resp[p] = 404

C4_LookupAfterTTLMisses ==
    \A p \in Procs :
        (/\ late[p] # "no"
         /\ \A q \in Procs : hget[q] # "Err" /\ put[q] # "failed"
                             /\ fillErr[q] = ErrNone) =>
            /\ hget[p] = "Miss"
            /\ pc[p] = "done" => nDb[p] >= 1

\* C4 amended: it misses and reads the database again when ExpireDuration
\* has also passed since the last successful Expire of logistics_cache, no
\* HSet was applied since that Expire, and its cache read does not fail.
C4_LookupAfterExpiryMisses ==
    \A p \in Procs :
        (late[p] = "clean" /\ hget[p] # "Err") =>
            /\ hget[p] = "Miss"
            /\ pc[p] # "base" => nDb[p] >= 1

C4_Witness ==
    \E p \in Procs :
        late[p] = "clean" /\ hget[p] = "Miss" /\ pc[p] = "done" /\ nDb[p] = 4

\* Row i of rows carries a maximal (date, time) pair, the date compared
\* first and the time second.
MaximalEvent(rows, i) ==
    \A j \in 1..Len(rows) :
        \/ rows[j].date < rows[i].date
        \/ rows[j].date = rows[i].date /\ rows[j].time <= rows[i].time

\* The call of goroutine p read all four tables of an unchanged store and
\* no read of it failed for a reason other than a missing row.
SettledFetch(p) == Fetched(p) /\ stable[p] /\ dbErr[p] # ErrDB

\* C8: for a sno whose rows are all in the store, the store unchanged during
\* the call, getPackageDetailsInDB returns a record whose CurrentLocation is
\* the location of an event of that sno with the maximal (date, time) pair,
\* date compared first and time second.
C8_CurrentLocationIsLatest ==
    \A p \in Procs :
        SettledFetch(p) =>
            LET rows == details[sno[p]] IN
            /\ dbErr[p] = ErrNone =>
                 \E i \in 1..Len(rows) :
                    /\ MaximalEvent(rows, i)
                    /\ pd[p].CurrentLocation = rows[i].loc
            /\ (/\ sno[p] \in packages
                /\ sno[p] \in recipients
                /\ rows # <<>>
                /\ \A i \in 1..Len(rows) :
                      MaximalEvent(rows, i) => rows[i].loc \in locations)
               => dbErr[p] = ErrNone

C8_Witness ==
    \E p \in Procs :
        /\ SettledFetch(p) /\ dbErr[p] = ErrNone
        /\ Len(details[sno[p]]) = 2
        /\ details[sno[p]][1].date > details[sno[p]][2].date
        /\ details[sno[p]][1].time < details[sno[p]][2].time
        /\ details[sno[p]][1].loc # details[sno[p]][2].loc
        /\ pd[p].CurrentLocation = details[sno[p]][1].loc

\* C9: getPackageDetailsInDB returns a record only if the Packages row, at
\* least one TrackingDetails row, the Recipients row and the Locations row
\* of the latest event exist; when one of the four is absent it returns
\* "no rows" (NotFound) and no record.
C9_RecordNeedsAllFourReads ==
    \A p \in Procs :
        SettledFetch(p) =>
            LET rows == details[sno[p]] IN
            /\ dbErr[p] = ErrNone =>
                 /\ sno[p] \in packages
                 /\ rows # <<>>
                 /\ sno[p] \in recipients
                 /\ pd[p].CurrentLocation \in locations
                 /\ pd[p].Sno = sno[p] /\ pd[p].Recipient = sno[p]
            /\ (\/ sno[p] \notin packages
                \/ rows = <<>>
                \/ sno[p] \notin recipients
                \/ \A i \in 1..Len(rows) :
                      MaximalEvent(rows, i) => rows[i].loc \notin locations)
               => /\ dbErr[p] = ErrNoRows
                  /\ pd[p].CurrentLocation = 0

C9_Witness ==
    \E p \in Procs :
        /\ SettledFetch(p) /\ dbErr[p] = ErrNoRows
        /\ sno[p] \in packages /\ sno[p] \in recipients
        /\ details[sno[p]] # <<>>
        /\ \A i \in 1..Len(details[sno[p]]) :
              details[sno[p]][i].loc \notin locations

\* C11: nothing serializes two lookups of one uncached sno: both can miss,
\* both read the database and both HSet; the field then holds the bytes of
\* the HSet applied last, whichever record that lookup assembled.
C11_LastPutWins ==
    \A p \in Procs :
        put[p] = "ok" =>
            /\ hget[p] = "Miss" /\ nDb[p] >= 1
            /\ cache[sno[p]] = Marshal(pd[p])
            /\ \A q \in Procs \ {p} : sno[q] = sno[p] => put[q] # "ok"

C11_Witness ==
    \E p, q \in Procs :
        /\ p # q /\ sno[p] = sno[q]
        /\ pc[p] = "done" /\ pc[q] = "done"
        /\ hget[p] = "Miss" /\ hget[q] = "Miss"
        /\ nDb[p] = 4 /\ nDb[q] = 4
        /\ put[p] = "overwritten" /\ put[q] = "ok"
        /\ Len(pd[q].Details) < Len(pd[p].Details)
        /\ pd[q].CurrentLocation # pd[p].CurrentLocation
        /\ cache[sno[p]] = Marshal(pd[q])

\* C12: the expiry belongs to the whole hash. Every miss-fill, of whatever
\* sno, ends with one Expire of logistics_cache, which (when the call
\* succeeds on the existing hash) moves the expiry of all its fields to
\* ExpireDuration from now; and the fields only ever go together: a step
\* that removes one field leaves none.
C12_SharedFateExpiry ==
    [][/\ \A p \in Procs :
            (pc[p] # "done" /\ pc'[p] = "done" /\ hget'[p] = "Miss") =>
                /\ pc[p] = "expire" /\ nExp'[p] = 1
                /\ (fillErr'[p] = ErrNone /\ HashExists) =>
                       expireAt' = now + ExpireDuration
       /\ (\E k \in Keys : cache[k] # Nil /\ cache'[k] = Nil) =>
              \A k \in Keys : cache'[k] = Nil]_vars

C12_Witness ==
    \E p, q \in Procs :
        /\ sno[p] # sno[q]
        /\ filled[p] /\ put[p] = "ok" /\ filled[q] /\ put[q] = "ok"
        /\ doneAt[p] < doneAt[q]
        /\ now >= doneAt[p] + ExpireDuration
        /\ cache[sno[p]] = Marshal(pd[p])
        /\ expireAt = doneAt[q] + ExpireDuration

\* Where goroutine p stands in getPackageDetailsInDB: the reads issued so
\* far are the first nDb[p] of base row, events, recipient, location, each
\* of them succeeded unless it was the last, and pd[p] holds what the
\* successful ones scanned and nothing of a later read.
ReadsInOrder(p) ==
    /\ pc[p] = "base" => nDb[p] = 0 /\ pd[p] = ZeroPD
    /\ pc[p] = "details" => nDb[p] = 1
    /\ pc[p] = "recipient" => nDb[p] = 2
    /\ pc[p] = "location" => nDb[p] = 3
    /\ pc[p] \in {"base", "details", "recipient", "location"} =>
          dbErr[p] = ErrNone
    /\ Fetched(p) =>
          /\ nDb[p] \in 1..4
          /\ dbErr[p] = ErrNone => nDb[p] = 4
          /\ dbErr[p] # ErrNone =>
                /\ pd[p].CurrentLocation = 0
                /\ nDb[p] <= 3 => pd[p].Recipient = ""
                /\ nDb[p] <= 2 => pd[p].Details = <<>>
                /\ nDb[p] = 1 => pd[p] = ZeroPD
    /\ nDb[p] >= 2 => pd[p].Sno = sno[p]
    /\ nDb[p] >= 4 => pd[p].Recipient = sno[p]

\* C13: getPackageDetailsInDB issues its reads in the order base row,
\* events, recipient, latest location and stops at the first that fails: no
\* read follows a failed one, and the error it returns is that read's. A
\* TrackingDetails read whose iteration breaks off before the last row has
\* failed.
C13_ReadsInOrderStopAtFirstFailure ==
    [][\A p \in Procs :
          /\ ReadsInOrder(p)'
          /\ dbErr[p] # ErrNone => nDb'[p] = nDb[p] /\ dbErr'[p] = dbErr[p]
          /\ dbErr'[p] # dbErr[p] => nDb'[p] = nDb[p] + 1 /\ pc'[p] = "hset"
          /\ (/\ pc[p] = "details" /\ pc'[p] # "details"
              /\ pd'[p].Details # details[sno[p]]) =>
                 pc'[p] = "hset" /\ dbErr'[p] # ErrNone]_vars

\* The record goroutine p assembled without error is torn: its
\* CurrentLocation is the location of no event with the maximal
\* (date, time) pair among its own Details.
Torn(p) ==
    /\ Fetched(p) /\ dbErr[p] = ErrNone
    /\ \A i \in 1..Len(pd[p].Details) :
          MaximalEvent(pd[p].Details, i) =>
              pd[p].Details[i].loc # pd[p].CurrentLocation

\* C14: the four reads share no transaction, so an event inserted between
\* the events read and the location read gives a torn record. Such a record
\* comes from a row the events read did not see, and it is returned as a
\* success and cached like any other.
C14_TornReadSucceeds ==
    \A p \in Procs :
        Torn(p) =>
            /\ Len(pd[p].Details) < Len(details[sno[p]])
            /\ \E i \in (Len(pd[p].Details) + 1)..Len(details[sno[p]]) :
                  details[sno[p]][i].loc = pd[p].CurrentLocation
            /\ pc[p] = "done" =>
                  res[p] = [val |-> pd[p], err |-> ErrNone] /\ resp[p] = 200
            /\ put[p] = "ok" => cache[sno[p]] = Marshal(pd[p])

C14_Witness ==
    \E p \in Procs :
        /\ Torn(p) /\ pc[p] = "done" /\ resp[p] = 200
        /\ pd[p].Details # <<>>
        /\ put[p] = "ok" /\ filled[p]
        /\ cache[sno[p]] = Marshal(pd[p])
        /\ Unmarshal(cache[sno[p]]).CurrentLocation = 2
        /\ Unmarshal(cache[sno[p]]).Details[1].loc = 1

\* C15 as stated: a field of logistics_cache is written once: no step of a
\* lookup rewrites or removes a field that is present (fields go only when
\* the whole hash does).
C15_PresentEntryNeverRewritten ==
    [][\A k \in Keys :
          cache[k] # Nil =>
              \/ cache'[k] = cache[k]
              \/ \A j \in Keys : cache'[j] = Nil]_vars

\* C15 amended: no lookup removes a field, and a field that is present is
\* rewritten only by the HSet of a lookup whose own HGet missed before the
\* field was written; a lookup that finds the field changes nothing, reads
\* no table and returns the cached bytes decoded, whatever the tables hold
\* by then.
C15_OnlyMissFillsWrite ==
    [][/\ \A k \in Keys :
            (cache[k] # Nil /\ cache'[k] # cache[k]) =>
                \E p \in Procs :
                    /\ pc[p] = "hset" /\ pc'[p] = "expire"
                    /\ sno[p] = k /\ hget[p] = "Miss"
                    /\ cache'[k] = Marshal(pd[p])
       /\ \A p \in Procs :
            (pc[p] = "idle" /\ hget'[p] = "Hit") =>
                /\ UNCHANGED cacheVars
                /\ pc'[p] = "done"
                /\ nDb'[p] = 0 /\ nPut'[p] = 0 /\ nExp'[p] = 0
                /\ Decodable(cache[sno'[p]]) =>
                      res'[p] = [val |-> Unmarshal(cache[sno'[p]]),
                                 err |-> ErrNone]]_vars

C15_Witness ==
    \E p \in Procs :
        /\ hget[p] = "Hit" /\ res[p].err = ErrNone /\ stable[p]
        /\ Len(res[p].val.Details) < Len(details[sno[p]])
        /\ res[p].val.CurrentLocation = 1
        /\ \E i \in 1..Len(details[sno[p]]) :
              /\ MaximalEvent(details[sno[p]], i)
              /\ details[sno[p]][i].loc = 2

\* C16: within one lookup every external call is attempted at most once:
\* one HGet, at most four relational reads (each moving on to the next
\* statement), one HSet, one Expire; a call that failed is never issued
\* again.
C16_NoRetries ==
    [][\A p \in Procs :
          /\ nGet'[p] <= 1 /\ nDb'[p] <= 4 /\ nPut'[p] <= 1 /\ nExp'[p] <= 1
          /\ nDb'[p] # nDb[p] => nDb'[p] = nDb[p] + 1 /\ pc'[p] # pc[p]
          /\ nPut'[p] # nPut[p] => pc[p] = "hset" /\ pc'[p] = "expire"
          /\ nExp'[p] # nExp[p] => pc[p] = "expire" /\ pc'[p] = "done"
          /\ hget[p] = "Err" => nGet'[p] = nGet[p] /\ pc'[p] = "done"
          /\ dbErr[p] # ErrNone => nDb'[p] = nDb[p]
          /\ put[p] = "failed" => nPut'[p] = nPut[p]
          /\ fillErr[p] # ErrNone => nExp'[p] = nExp[p]]_vars

C16_Witness ==
    \E p \in Procs :
        /\ pc[p] = "done" /\ hget[p] = "Miss"
        /\ dbErr[p] = ErrDB /\ put[p] = "failed" /\ fillErr[p] = ErrRedis
        /\ nGet[p] = 1 /\ nDb[p] = 1 /\ nPut[p] = 1 /\ nExp[p] = 1

\* C17: the duration every fill passes to Expire is two hours divided by
\* sixty: 120 seconds, not 7200; whenever a step sets the expiry of
\* logistics_cache, it sets it to 120 seconds from now.
C17_ExpiryIsTwoMinutes ==
    [][/\ ExpireDuration = 120 /\ ExpireDuration # 7200
       /\ (expireAt' # expireAt /\ expireAt' # NoExpiry) =>
              /\ expireAt' = now + 120
              /\ \E p \in Procs : pc[p] = "expire" /\ pc'[p] = "done"]_vars

C17_Witness ==
    \E p, q \in Procs :
        /\ filled[p] /\ filled[q] /\ sno[p] = sno[q]
        /\ doneAt[p] = 0 /\ doneAt[q] = 120
        /\ put[p] = "expired" /\ put[q] = "ok"
        /\ expireAt = 240

\* C18: a hit is read-only. A lookup whose HGet returns bytes ends in that
\* step and issues no HSet, no Expire and no relational read, then or
\* later: the fields and the expiry instant of logistics_cache are the same
\* after a hit as before it.
C18_HitIsReadOnly ==
    [][\A p \in Procs :
          /\ hget'[p] = "Hit" =>
                /\ pc'[p] = "done"
                /\ nDb'[p] = 0 /\ nPut'[p] = 0 /\ nExp'[p] = 0
          /\ (hget[p] # "Hit" /\ hget'[p] = "Hit") =>
                /\ cache' = cache
                /\ expireAt' = expireAt
                /\ putIssued' = putIssued]_vars

C18_Witness ==
    \E p, q \in Procs :
        /\ hget[p] = "Hit" /\ res[p].err = ErrNone
        /\ filled[q] /\ put[q] = "ok" /\ sno[q] = sno[p]
        /\ doneAt[q] = 0 /\ doneAt[p] = 60 /\ now = 60
        /\ expireAt = 120

\* C19: in a fill the Expire follows the HSet whatever the HSet did, and the
\* error the fill reports is that of the Expire alone: a failed HSet writes
\* nothing and reports nothing, and when the Expire after it succeeds the
\* fill reports success while the field is still absent.
C19_ExpireFollowsPutRegardless ==
    [][\A p \in Procs :
          /\ (pc[p] = "hset" /\ pc'[p] # "hset") =>
                /\ pc'[p] = "expire" /\ nPut'[p] = 1 /\ nExp'[p] = 0
                /\ fillErr'[p] = ErrNone
                /\ put'[p] = "failed" => cache' = cache
          /\ (pc[p] = "expire" /\ pc'[p] # "expire") =>
                /\ pc'[p] = "done" /\ nExp'[p] = 1
                /\ cache' = cache
                /\ fillErr'[p] # ErrNone => expireAt' = expireAt
                /\ (fillErr'[p] = ErrNone /\ HashExists) =>
                       expireAt' = now + ExpireDuration
                /\ res'[p] = [val |-> pd[p], err |-> ErrNone]]_vars

C19_Witness ==
    \E p \in Procs :
        /\ pc[p] = "done" /\ hget[p] = "Miss" /\ dbErr[p] = ErrNone
        /\ put[p] = "failed" /\ nPut[p] = 1 /\ nExp[p] = 1
        /\ fillErr[p] = ErrNone /\ resp[p] = 200
        /\ cache[sno[p]] = Nil

\* Every field of logistics_cache holds the bytes of a record that a
\* getPackageDetailsInDB call for that very sno returned.
FieldsComeFromOwnFetch ==
    \A k \in Keys :
        cache[k] # Nil =>
            \E p \in Procs :
                /\ sno[p] = k /\ Fetched(p) /\ nPut[p] = 1
                /\ cache[k] = Marshal(pd[p])

\* C20: key isolation. The bytes under field k are always the encoding of
\* what a getPackageDetailsInDB call for k returned, and a step of a lookup
\* of k changes no field but k: it adds, overwrites or removes no other.
C20_KeyIsolation ==
    [][/\ FieldsComeFromOwnFetch'
       /\ \A p \in Procs :
            pc'[p] # pc[p] =>
                \A k \in Keys \ {sno'[p]} : cache'[k] = cache[k]]_vars

C20_Witness ==
    \E p, q \in Procs :
        /\ sno[p] = "A" /\ sno[q] = "B"
        /\ put[p] = "ok" /\ put[q] = "ok"
        /\ pc[p] = "done" /\ pc[q] = "done"
        /\ Unmarshal(cache["A"]).Sno = "A" /\ cache["A"] = Marshal(pd[p])
        /\ Unmarshal(cache["B"]).Sno = "B" /\ cache["B"] = Marshal(pd[q])

====
